---- MODULE Spec2Model ----
(***************************************************************************)
(* Model of the SQL assembly engine: the sort directive (src/src/sort.rs)  *)
(* and the query builder (src/src/sql.rs).                                 *)
(*                                                                         *)
(* Text is a sequence of pieces.  An identifier is a sequence of one-      *)
(* character strings, so that case conversion and the split of a sort      *)
(* token act on characters; every literal the code pushes with one         *)
(* push_str (" WHERE ", " AND ", " ", "ASC", ...) is one piece.  No        *)
(* identifier, raw fragment or seed text of the model contains a clause    *)
(* keyword, so a keyword piece in the SQL text is a clause the builder     *)
(* appended.  Option<T> is a sequence of length 0 (None) or 1 (Some).      *)
(***************************************************************************)
EXTENDS Integers, Sequences, FiniteSets, TLC

VARIABLES
    url_query,  \* the structured query model the builder was constructed from
    qb,         \* the fields of the QueryBuilder
    built,      \* build consumed the builder
    out,        \* what build returned, (sql, args)
    ret,        \* what the last direct append_where call returned
    napp,       \* number of direct append_where/group/sort calls
    last_set,   \* the last argument given to each setter (its default if none)
    raws,       \* the fragments given to append, in call order
    token,      \* the text given to Sort::new
    parsed      \* what Sort::new returned for it

vars == <<url_query, qb, built, out, ret, napp, last_set, raws, token, parsed>>

(* ------------------------------ bounds --------------------------------- *)
MaxFilters == 2
MaxShift == 9
MaxRaw == 2
MaxAppend == 2
MaxTokLen == 6

None == <<>>
Some(x) == <<x>>

(* ------------------------- characters and case ------------------------- *)
UpperChars == {"I", "D", "U"}

ToLowerChar(c) ==
    CASE c = "I" -> "i"
      [] c = "D" -> "d"
      [] c = "U" -> "u"
      [] OTHER -> c

IsUpper(c) == c \in UpperChars
IsLower(c) == c \in {"i", "d", "u"}
IsDelim(c) == c \in {"_", "-", " "}

LowerAll(s) == [i \in 1..Len(s) |-> ToLowerChar(s[i])]

\* Word boundary before position i of s (i > 1), as convert_case finds it:
\* a lower-case letter followed by an upper-case one, or the last capital of
\* an acronym followed by a lower-case letter.
BoundaryBefore(s, i) ==
    \/ IsLower(s[i - 1]) /\ IsUpper(s[i])
    \/ /\ IsUpper(s[i - 1]) /\ IsUpper(s[i])
       /\ i < Len(s) /\ IsLower(s[i + 1])

RECURSIVE SplitWords(_, _, _, _)
SplitWords(s, i, cur, acc) ==
    LET close == IF cur = <<>> THEN acc ELSE Append(acc, cur)
    IN  IF i > Len(s) THEN close
        ELSE IF IsDelim(s[i]) THEN SplitWords(s, i + 1, <<>>, close)
        ELSE IF i > 1 /\ cur # <<>> /\ BoundaryBefore(s, i)
             THEN SplitWords(s, i + 1, <<s[i]>>, close)
        ELSE SplitWords(s, i + 1, Append(cur, s[i]), acc)

RECURSIVE JoinWith(_, _)
JoinWith(seqs, sep) ==
    IF seqs = <<>> THEN <<>>
    ELSE IF Len(seqs) = 1 THEN seqs[1]
    ELSE seqs[1] \o sep \o JoinWith(Tail(seqs), sep)

Cases == {"Snake", "Flat"}

\* field.to_case(case)
ToCase(s, case) ==
    LET words == SplitWords(s, 1, <<>>, <<>>)
        lower == [k \in 1..Len(words) |-> LowerAll(words[k])]
    IN  IF case = "Snake" THEN JoinWith(lower, <<"_">>)
        ELSE JoinWith(lower, <<>>)

Digits == <<"0", "1", "2", "3", "4", "5", "6", "7", "8", "9">>

RECURSIVE NumStr(_)
NumStr(n) ==
    IF n < 10 THEN <<Digits[n + 1]>>
    ELSE NumStr(n \div 10) \o <<Digits[(n % 10) + 1]>>

(* ------------------------------ sort.rs -------------------------------- *)
\* Mutant of SplitOnce: splits at the last hyphen (rsplit_once).
RECURSIVE SplitOnceLast(_, _)
SplitOnceLast(s, i) ==
    IF i > Len(s) THEN None
    ELSE LET later == SplitOnceLast(s, i + 1)
         IN  IF later # None THEN later
             ELSE IF s[i] = "-"
                  THEN Some([f |-> SubSeq(s, 1, i - 1), s |-> SubSeq(s, i + 1, Len(s))])
             ELSE None

\* str::split_once("-"): None, or Some((before, after)) of the first hyphen.
RECURSIVE SplitOnce(_, _)
SplitOnce(s, i) ==
    IF i > Len(s) THEN None
    ELSE IF s[i] = "-"
         THEN Some([f |-> SubSeq(s, 1, i - 1), s |-> SubSeq(s, i + 1, Len(s))])
    ELSE SplitOnce(s, i + 1)

Ok(v) == [ok |-> TRUE, val |-> v, err |-> "none"]
Err(e) == [ok |-> FALSE, val |-> <<>>, err |-> e]

SortByFromStr(s) ==
    IF s = <<"a", "s", "c">> THEN Ok("ASC")
    ELSE IF s = <<"d", "e", "s", "c">> THEN Ok("DESC")
    ELSE Err("InvalidSortBy")

SortByAsStr(sort_by) == IF sort_by = "ASC" THEN "ASC" ELSE "DESC"

SortNew(str) ==
    LET split == SplitOnce(str, 1)
    IN  IF split = None THEN Err("InvalidSort")
        ELSE LET sort_by == SortByFromStr(split[1].s)
             IN  IF ~sort_by.ok THEN Err(sort_by.err)
                 ELSE Ok([field |-> split[1].f, sort_by |-> sort_by.val])

SortToSql(sort, prefix, case) ==
    (IF case # None THEN prefix \o ToCase(sort.field, case[1])
     ELSE prefix \o ToCase(sort.field, "Snake"))
    \o <<" ", SortByAsStr(sort.sort_by)>>

SortToSqlMapTable(sort, table, case) ==
    LET prefix == IF table # None THEN table[1] \o <<".">> ELSE <<>>
    IN  SortToSql(sort, prefix, case)

(* ------------------------- the query model ----------------------------- *)
Id == <<"i", "d">>
UId == <<"u", "I", "d">>
Fields == {Id, UId}

Postgres == "Postgres"
MySQL == "MySQL"
Databases == {Postgres, MySQL}

FilterSet ==
    { [field |-> UId, op |-> " = ", value |-> <<"1">>],
      [field |-> Id, op |-> " >= ", value |-> <<"2">>] }

OpPieces == {f.op : f \in FilterSet}

\* The sequences over S of length at most n.
SeqsUpTo(S, n) == UNION {[1..k -> S] : k \in 0..n}

\* Dialect placeholder of a bind position.
PlaceholderFor(database, position) ==
    IF database = Postgres THEN <<"$">> \o NumStr(position) ELSE <<"?">>

\* Filter::to_sql_map_table(position, table, case, database)
FilterToSqlMapTable(filter, position, table, case, database) ==
    (IF table # None THEN table[1] \o <<".">> ELSE <<>>)
    \o (IF case # None THEN ToCase(filter.field, case[1]) ELSE filter.field)
    \o <<filter.op>>
    \o PlaceholderFor(database, position)

IsDigits(s) == s # <<>> /\ \A i \in 1..Len(s) : s[i] \in {Digits[k] : k \in 1..10}

\* UrlQuery::check_limit / check_offset: the validated text, or an error.
CheckLimit(q) ==
    IF q.limit # None /\ IsDigits(q.limit[1]) THEN Ok(q.limit[1]) ELSE Err("InvalidLimit")

CheckOffset(q) ==
    IF q.offset # None /\ IsDigits(q.offset[1]) THEN Ok(q.offset[1]) ELSE Err("InvalidOffset")

SortTokens == { UId \o <<"-", "a", "s", "c">>, Id \o <<"-", "d", "e", "s", "c">> }

LimitValues == {None, Some(<<"x">>), Some(<<"1", "0">>)}
OffsetValues == {None, Some(<<"x">>), Some(<<"0">>)}

\* The structured query models a builder is constructed from.
Models ==
    [ filters : SeqsUpTo(FilterSet, MaxFilters),
      group : {None} \cup {Some(f) : f \in Fields},
      sort : {None} \cup {Some(SortNew(t).val) : t \in SortTokens},
      limit : LimitValues,
      offset : OffsetValues ]

(* ------------------------------- sql.rs -------------------------------- *)
MapGet(map, key) == IF key \in DOMAIN map THEN Some(map[key]) ELSE None

EmptyMap == [k \in {} |-> <<>>]
ColumnMaps == {EmptyMap, [k \in {Id} |-> <<"o">>]}

gen_sql_select(table, columns) ==
    <<"SELECT ">> \o JoinWith(columns, <<", ">>) \o <<" FROM ">> \o table

new(table, columns) ==
    [ database |-> Postgres, map_columns |-> EmptyMap, shift_bind |-> 0,
      convert_case |-> None, sql |-> gen_sql_select(table, columns) ]

from_str(sql) ==
    [ database |-> Postgres, map_columns |-> EmptyMap, shift_bind |-> 0,
      convert_case |-> None, sql |-> sql ]

set_database(self, database) == [self EXCEPT !.database = database]

append(self, sql) == [self EXCEPT !.sql = @ \o <<" ">> \o sql]

map_columns(self, map) == [self EXCEPT !.map_columns = map]

\* Mutant of shift_bind: adds to the shift instead of replacing it.
shift_bind_adds(self, x) == [self EXCEPT !.shift_bind = @ + x]

shift_bind(self, x) == [self EXCEPT !.shift_bind = x]

convert_case(self, case) == [self EXCEPT !.convert_case = Some(case)]

\* The loop of append_where: one predicate and one argument per filter.
RECURSIVE where_loop(_, _, _, _)
where_loop(self, filters, filterv, args) ==
    IF filters = <<>> THEN [filterv |-> filterv, args |-> args]
    ELSE LET filter == Head(filters)
             table == MapGet(self.map_columns, filter.field)
             pred == FilterToSqlMapTable(filter, Len(args) + self.shift_bind + 1,
                                         table, self.convert_case, self.database)
         IN  where_loop(self, Tail(filters), Append(filterv, pred),
                        Append(args, <<filter.field, filter.value>>))

\* Mutant of append_where: the bind position ignores the shift.
append_where_no_shift(self, q) ==
    LET r == where_loop([self EXCEPT !.shift_bind = 0], q.filters, <<>>, <<>>)
        filter == JoinWith(r.filterv, <<" AND ">>)
    IN  [ self |-> IF Len(r.filterv) > 0
                   THEN [self EXCEPT !.sql = @ \o <<" WHERE ">> \o filter]
                   ELSE self,
          args |-> r.args ]

\* Mutant of append_where: the arguments come out last filter first.
append_where_args_reversed(self, q) ==
    LET r == where_loop(self, q.filters, <<>>, <<>>)
        filter == JoinWith(r.filterv, <<" AND ">>)
    IN  [ self |-> IF Len(r.filterv) > 0
                   THEN [self EXCEPT !.sql = @ \o <<" WHERE ">> \o filter]
                   ELSE self,
          args |-> [k \in 1..Len(r.args) |-> r.args[Len(r.args) + 1 - k]] ]

\* Mutant of append_where: " WHERE " is pushed without the length test.
append_where_always(self, q) ==
    LET r == where_loop(self, q.filters, <<>>, <<>>)
        filter == JoinWith(r.filterv, <<" AND ">>)
    IN  [ self |-> [self EXCEPT !.sql = @ \o <<" WHERE ">> \o filter],
          args |-> r.args ]

append_where(self, q) ==
    LET r == where_loop(self, q.filters, <<>>, <<>>)
        filter == JoinWith(r.filterv, <<" AND ">>)
    IN  [ self |-> IF Len(r.filterv) > 0
                   THEN [self EXCEPT !.sql = @ \o <<" WHERE ">> \o filter]
                   ELSE self,
          args |-> r.args ]

append_group(self, q) ==
    IF q.group = None THEN self
    ELSE LET group == q.group[1]
             table == MapGet(self.map_columns, group)
             prefix == IF table # None THEN table[1] \o <<".">> ELSE <<>>
             name == IF self.convert_case # None
                     THEN ToCase(group, self.convert_case[1])
                     ELSE group
         IN  [self EXCEPT !.sql = @ \o <<" GROUP BY ">> \o prefix \o name]

append_sort(self, q) ==
    IF q.sort = None THEN self
    ELSE LET sort == q.sort[1]
             table == MapGet(self.map_columns, sort.field)
         IN  [self EXCEPT !.sql = @ \o <<" ORDER BY ">>
                                   \o SortToSqlMapTable(sort, table, self.convert_case)]

append_limit(sql, limit) == sql \o <<" LIMIT ">> \o limit

append_offset(sql, offset) == sql \o <<" OFFSET ">> \o offset

\* Mutant of build: ORDER BY is appended before GROUP BY.
build_sort_before_group(self, q) ==
    LET w == append_where(self, q)
        s == append_sort(w.self, q)
        g == append_group(s, q)
        limit == CheckLimit(q)
        offset == CheckOffset(q)
        sql == IF limit.ok
               THEN LET l == append_limit(g.sql, limit.val)
                    IN  IF offset.ok THEN append_offset(l, offset.val) ELSE l
               ELSE g.sql
    IN  [sql |-> sql, args |-> w.args]

\* Mutant of build: the offset test is not nested in the limit test.
build_offset_unnested(self, q) ==
    LET w == append_where(self, q)
        g == append_group(w.self, q)
        s == append_sort(g, q)
        limit == CheckLimit(q)
        offset == CheckOffset(q)
        l == IF limit.ok THEN append_limit(s.sql, limit.val) ELSE s.sql
        sql == IF offset.ok THEN append_offset(l, offset.val) ELSE l
    IN  [sql |-> sql, args |-> w.args]

build(self, q) ==
    LET w == append_where(self, q)
        g == append_group(w.self, q)
        s == append_sort(g, q)
        limit == CheckLimit(q)
        offset == CheckOffset(q)
        sql == IF limit.ok
               THEN LET l == append_limit(s.sql, limit.val)
                    IN  IF offset.ok THEN append_offset(l, offset.val) ELSE l
               ELSE s.sql
    IN  [sql |-> sql, args |-> w.args]

(* ------------------------------ the state ------------------------------ *)
\* The characters of the texts given to Sort::new.
TokChars == {"a", "s", "c", "d", "e", "-", "A", " "}

ShiftValues == {0, 1, MaxShift}

Fragments == { <<"JOIN users ON users.id = orders.user_id">>,
               <<"JOIN inventory ON inventory.id = orders.inventory_id">> }

SeedFromStr == from_str(<<"SELECT * FROM orders">>)
SeedNew == new(<<"orders">>, << <<"id">>, <<"status">> >>)

EmptyModel ==
    [filters |-> <<>>, group |-> None, sort |-> None, limit |-> None, offset |-> None]

\* Models whose limit and offset are both absent or both valid.
PlainModels ==
    { m \in Models : /\ m.limit \in {None, Some(<<"1", "0">>)}
                     /\ (m.offset = None) <=> (m.limit = None)
                     /\ m.offset \in {None, Some(<<"0">>)} }

Defaults(b) ==
    [ database |-> b.database, map_columns |-> b.map_columns,
      shift_bind |-> b.shift_bind, convert_case |-> b.convert_case ]

InitWith(models, seeds, toklen) ==
    /\ url_query \in models
    /\ qb \in seeds
    /\ built = FALSE
    /\ out = None
    /\ ret = None
    /\ napp = 0
    /\ last_set = Defaults(qb)
    /\ raws = <<>>
    /\ \E k \in 0..toklen : token \in [1..k -> TokChars]
    /\ parsed = None

(* ------------------------------ actions -------------------------------- *)
SetDatabase ==
    /\ ~built
    /\ \E database \in Databases :
          /\ qb' = set_database(qb, database)
          /\ last_set' = [last_set EXCEPT !.database = database]
    /\ UNCHANGED <<url_query, built, out, ret, napp, raws, token, parsed>>

AppendRaw ==
    /\ ~built
    /\ Len(raws) < MaxRaw
    /\ \E sql \in Fragments :
          /\ qb' = append(qb, sql)
          /\ raws' = Append(raws, sql)
    /\ UNCHANGED <<url_query, built, out, ret, napp, last_set, token, parsed>>

MapColumns ==
    /\ ~built
    /\ \E map \in ColumnMaps :
          /\ qb' = map_columns(qb, map)
          /\ last_set' = [last_set EXCEPT !.map_columns = map]
    /\ UNCHANGED <<url_query, built, out, ret, napp, raws, token, parsed>>

ShiftBind ==
    /\ ~built
    /\ \E x \in ShiftValues :
          /\ qb' = shift_bind(qb, x)
          /\ last_set' = [last_set EXCEPT !.shift_bind = x]
    /\ UNCHANGED <<url_query, built, out, ret, napp, raws, token, parsed>>

ConvertCase ==
    /\ ~built
    /\ \E case \in Cases :
          /\ qb' = convert_case(qb, case)
          /\ last_set' = [last_set EXCEPT !.convert_case = Some(case)]
    /\ UNCHANGED <<url_query, built, out, ret, napp, raws, token, parsed>>

AppendWhere ==
    /\ ~built
    /\ napp < MaxAppend
    /\ LET r == append_where(qb, url_query)
       IN  /\ qb' = r.self
           /\ ret' = Some(r.args)
    /\ napp' = napp + 1
    /\ UNCHANGED <<url_query, built, out, last_set, raws, token, parsed>>

AppendGroup ==
    /\ ~built
    /\ napp < MaxAppend
    /\ qb' = append_group(qb, url_query)
    /\ napp' = napp + 1
    /\ UNCHANGED <<url_query, built, out, ret, last_set, raws, token, parsed>>

AppendSort ==
    /\ ~built
    /\ napp < MaxAppend
    /\ qb' = append_sort(qb, url_query)
    /\ napp' = napp + 1
    /\ UNCHANGED <<url_query, built, out, ret, last_set, raws, token, parsed>>

Build ==
    /\ ~built
    /\ built' = TRUE
    /\ out' = Some(build(qb, url_query))
    /\ UNCHANGED <<url_query, qb, ret, napp, last_set, raws, token, parsed>>

Parse ==
    /\ parsed = None
    /\ parsed' = Some(SortNew(token))
    /\ UNCHANGED <<url_query, qb, built, out, ret, napp, last_set, raws, token>>

(* --------------------------- specifications ---------------------------- *)
\* Configuration setters in any order, then build, over every query model.
Init == InitWith(Models, {SeedFromStr, SeedNew}, 0)

Next == SetDatabase \/ MapColumns \/ ShiftBind \/ ConvertCase \/ Build

Spec == Init /\ [][Next]_vars

\* Setters and raw fragments in any order, then build.
InitRaw == InitWith(PlainModels, {SeedFromStr}, 0)

NextRaw == SetDatabase \/ AppendRaw \/ MapColumns \/ ShiftBind \/ ConvertCase \/ Build

SpecRaw == InitRaw /\ [][NextRaw]_vars

\* The append operations called directly, in any order, then build, on a
\* builder in any configuration its setters can give it.
ConfiguredBuilders ==
    LET plain == { set_database(map_columns(shift_bind(SeedFromStr, x), map), database) :
                      x \in ShiftValues, map \in ColumnMaps, database \in Databases }
    IN  plain \cup {convert_case(b, case) : b \in plain, case \in Cases}

InitAppend == InitWith(PlainModels, ConfiguredBuilders, 0)

NextAppend == AppendWhere \/ AppendGroup \/ AppendSort \/ Build

SpecAppend == InitAppend /\ [][NextAppend]_vars

\* Sort::new on every token of the bounded alphabet.
InitSort == InitWith({EmptyModel}, {SeedFromStr}, MaxTokLen)

NextSort == Parse

SpecSort == InitSort /\ [][NextSort]_vars

(* ------------------------ reading the SQL text ------------------------- *)
ClauseKeywords == <<" WHERE ", " GROUP BY ", " ORDER BY ", " LIMIT ", " OFFSET ">>

IsClauseKeyword(piece) == \E k \in 1..Len(ClauseKeywords) : ClauseKeywords[k] = piece

Rank(keyword) == CHOOSE k \in 1..Len(ClauseKeywords) : ClauseKeywords[k] = keyword

Positions(sql, keyword) == {i \in 1..Len(sql) : sql[i] = keyword}

Has(sql, keyword) == Positions(sql, keyword) # {}

Min(S) == CHOOSE x \in S : \A y \in S : x <= y

\* The pieces that follow the first occurrence of keyword, up to the next
\* clause keyword or the end of the text; empty when keyword is absent.
Segment(sql, keyword) ==
    IF ~Has(sql, keyword) THEN <<>>
    ELSE LET i == Min(Positions(sql, keyword))
             j == Min({k \in (i + 1)..Len(sql) : IsClauseKeyword(sql[k])}
                      \cup {Len(sql) + 1})
         IN  SubSeq(sql, i + 1, j - 1)

RECURSIVE SplitOn(_, _)
SplitOn(seq, sep) ==
    IF \A i \in 1..Len(seq) : seq[i] # sep THEN <<seq>>
    ELSE LET i == Min({k \in 1..Len(seq) : seq[k] = sep})
         IN  <<SubSeq(seq, 1, i - 1)>> \o SplitOn(SubSeq(seq, i + 1, Len(seq)), sep)

\* The predicates of the WHERE clause, left to right.
Predicates(sql) ==
    IF ~Has(sql, " WHERE ") THEN <<>> ELSE SplitOn(Segment(sql, " WHERE "), " AND ")

\* The placeholder of a predicate: what follows its operator.
PlaceholderOf(pred) ==
    LET k == Min({i \in 1..Len(pred) : pred[i] \in OpPieces})
    IN  SubSeq(pred, k + 1, Len(pred))

OutSql == out[1].sql
OutArgs == out[1].args

(* ------------------------------- claims -------------------------------- *)
\* C1: build renders the N-th filter (from 1, in model order) with bind
\* position N + s, s the bind shift: under Postgres its placeholder is "$"
\* followed by N + s in decimal, under MySQL every placeholder is "?".
BindPositionIsIndexPlusShift ==
    built =>
        /\ Len(Predicates(OutSql)) = Len(url_query.filters)
        /\ \A N \in 1..Len(url_query.filters) :
              PlaceholderOf(Predicates(OutSql)[N]) =
                  IF last_set.database = Postgres
                  THEN <<"$">> \o NumStr(N + last_set.shift_bind)
                  ELSE <<"?">>

BindPositionWitness ==
    /\ built /\ Len(url_query.filters) = MaxFilters
    /\ last_set.database = Postgres /\ last_set.shift_bind = MaxShift
    /\ PlaceholderOf(Predicates(OutSql)[MaxFilters]) = <<"$">> \o NumStr(MaxFilters + MaxShift)

\* C2: the argument list build returns has one entry per filter, whatever
\* group, sort, limit and offset are; its N-th entry is the (field, value)
\* pair of the N-th filter, and the WHERE clause has as many placeholders.
ArgsMatchFilters ==
    built =>
        /\ Len(OutArgs) = Len(url_query.filters)
        /\ \A N \in 1..Len(OutArgs) :
              OutArgs[N] = <<url_query.filters[N].field, url_query.filters[N].value>>
        /\ Len(Predicates(OutSql)) = Len(OutArgs)

ArgsMatchFiltersWitness ==
    /\ built /\ Len(url_query.filters) = MaxFilters
    /\ url_query.filters[1] # url_query.filters[MaxFilters]
    /\ url_query.group # None /\ url_query.sort # None
    /\ Has(OutSql, " LIMIT ") /\ Has(OutSql, " OFFSET ")
    /\ Len(OutArgs) = MaxFilters

\* C3: when only setters precede build, each clause is appended at most once
\* and in the order WHERE, GROUP BY, ORDER BY, LIMIT, OFFSET.
ClauseOrderAfterBuild ==
    built =>
        /\ \A k \in 1..Len(ClauseKeywords) :
              Cardinality(Positions(OutSql, ClauseKeywords[k])) <= 1
        /\ \A a, b \in 1..Len(ClauseKeywords) :
              a < b =>
                 \A i \in Positions(OutSql, ClauseKeywords[a]),
                    j \in Positions(OutSql, ClauseKeywords[b]) : i < j

ClauseOrderWitness ==
    /\ built
    /\ \A k \in 1..Len(ClauseKeywords) : Has(OutSql, ClauseKeywords[k])

\* C4: after any sequence of the public operations (the append operations
\* included) followed by build, the clause keywords of the SQL text read
\* WHERE, GROUP BY, ORDER BY, LIMIT, OFFSET from left to right.
ClauseOrderAfterAnyCalls ==
    built =>
        LET keywords == SelectSeq(OutSql, IsClauseKeyword)
        IN  \A i, j \in 1..Len(keywords) :
               i < j => Rank(keywords[i]) < Rank(keywords[j])

\* C5: build appends OFFSET only after it appended LIMIT: with the limit
\* absent or invalid the text has neither clause, even with a valid offset,
\* and build still returns its (sql, args).
OffsetOnlyWithLimit ==
    built =>
        /\ out # None
        /\ Has(OutSql, " OFFSET ") => Has(OutSql, " LIMIT ")
        /\ ~CheckLimit(url_query).ok =>
              ~Has(OutSql, " LIMIT ") /\ ~Has(OutSql, " OFFSET ")
        /\ CheckLimit(url_query).ok =>
              Segment(OutSql, " LIMIT ") = url_query.limit[1]

OffsetOnlyWithLimitWitness ==
    /\ built
    /\ url_query.limit # None /\ ~CheckLimit(url_query).ok
    /\ CheckOffset(url_query).ok
    /\ ~Has(OutSql, " OFFSET ")

\* C6: with no case mode configured, the GROUP BY field is converted to
\* snake_case exactly as the ORDER BY field is: for the same field name the
\* two clauses carry the same identifier.
GroupCaseDefaultLikeSort ==
    ( /\ built /\ last_set.convert_case = None
      /\ url_query.group # None /\ url_query.sort # None
      /\ url_query.sort[1].field = url_query.group[1] )
    => Segment(OutSql, " GROUP BY ") \o <<" ", SortByAsStr(url_query.sort[1].sort_by)>>
          = Segment(OutSql, " ORDER BY ")

\* What a token parses to, read off its hyphen positions.
Hyphens(str) == {i \in 1..Len(str) : str[i] = "-"}

ExpectedParse(str) ==
    IF Hyphens(str) = {} THEN Err("InvalidSort")
    ELSE LET k == Min(Hyphens(str))
             rest == SubSeq(str, k + 1, Len(str))
         IN  IF rest = <<"a", "s", "c">>
             THEN Ok([field |-> SubSeq(str, 1, k - 1), sort_by |-> "ASC"])
             ELSE IF rest = <<"d", "e", "s", "c">>
             THEN Ok([field |-> SubSeq(str, 1, k - 1), sort_by |-> "DESC"])
             ELSE Err("InvalidSortBy")

\* C7: Sort::new splits the token at its first hyphen: no hyphen is
\* InvalidSort; a remainder other than "asc" or "desc" is InvalidSortBy;
\* otherwise the field is the text before the first hyphen and the direction
\* is that of the remainder.
ParseSplitsAtFirstHyphen == parsed # None => parsed[1] = ExpectedParse(token)

ParseWitness ==
    /\ parsed # None
    /\ Cardinality(Hyphens(token)) = 2 /\ Len(token) = MaxTokLen
    /\ SubSeq(token, Len(token) - 2, Len(token)) = <<"a", "s", "c">>
    /\ parsed[1].err = "InvalidSortBy"

\* C8: every Sort that Sort::new returns has a non-empty field.
ParsedFieldNonEmpty ==
    (parsed # None /\ parsed[1].ok) => parsed[1].val.field # <<>>

\* C9: append_where appends " WHERE " and the predicates joined by " AND "
\* exactly when the model has a filter; with no filter it returns no argument
\* and changes nothing.  append_group with no group and append_sort with no
\* sort leave the SQL text unchanged.
AppendFrame ==
    [] [ /\ AppendWhere =>
             /\ Defaults(qb') = Defaults(qb)
             /\ IF url_query.filters = <<>>
                THEN qb' = qb /\ ret' = Some(<<>>)
                ELSE /\ Len(qb'.sql) > Len(qb.sql) + 1
                     /\ SubSeq(qb'.sql, 1, Len(qb.sql) + 1) = qb.sql \o <<" WHERE ">>
                     /\ Len(SplitOn(SubSeq(qb'.sql, Len(qb.sql) + 2, Len(qb'.sql)), " AND "))
                           = Len(url_query.filters)
                     /\ Len(ret'[1]) = Len(url_query.filters)
         /\ (AppendGroup /\ url_query.group = None) => qb' = qb
         /\ (AppendSort /\ url_query.sort = None) => qb' = qb ]_vars

AppendFrameWitness ==
    /\ ~built /\ napp = 1 /\ ret = Some(<<>>)
    /\ url_query.filters = <<>> /\ ~Has(qb.sql, " WHERE ")

\* The builder made from the last value of each setter and the fragments.
FromFinalValues ==
    [ database |-> last_set.database, map_columns |-> last_set.map_columns,
      shift_bind |-> last_set.shift_bind, convert_case |-> last_set.convert_case,
      sql |-> SeedFromStr.sql
              \o JoinWith([k \in 1..Len(raws) |-> <<" ">> \o raws[k]], <<>>) ]

\* C10: what build returns depends only on the last value given to each
\* setter and on the raw fragments in call order: each setter changes its own
\* field alone, so the builder always equals the one made from those values,
\* and build returns what that builder returns.
OutputFromFinalValues ==
    /\ qb = FromFinalValues
    /\ built => out[1] = build(FromFinalValues, url_query)

OutputFromFinalValuesWitness ==
    /\ built /\ Len(raws) = MaxRaw /\ raws[1] # raws[MaxRaw]
    /\ last_set.database = MySQL /\ last_set.shift_bind = 1
    /\ last_set.map_columns # EmptyMap /\ last_set.convert_case = Some("Flat")
    /\ Len(url_query.filters) = MaxFilters

====
